---- MODULE Spec2Model ----
(***************************************************************************)
(* Device-Dashboard (src/src/App.js, DeviceDashboard component): the CSV   *)
(* upload callback, the per-source merge of rows into the device map, and  *)
(* the risk scoring and the aggregates of the merged devices.              *)
(*                                                                         *)
(* Spec is the dashboard itself. SpecUpload keeps the files whose parse is *)
(* still running, SpecRerun runs the pipeline a second time over the rows  *)
(* of a finished run, SpecNormalize applies normalizeHostname to hostname  *)
(* texts, SpecFilter applies the search filter to a device collection,     *)
(* SpecPaging follows currentPage through uploads, queries and page        *)
(* clicks, and SpecRace names the selected files and follows files and     *)
(* lastUpdated, which the other specifications leave at null.              *)
(*                                                                         *)
(* JavaScript values are modelled as TLA+ strings: Null stands for null    *)
(* and undefined, JsTrue/JsFalse/JsZero for the booleans and the number 0  *)
(* that Papa.parse's dynamicTyping produces, every other string for        *)
(* itself. Hostnames are sequences of one-character strings so that        *)
(* normalizeHostname can be computed character by character. Dates are     *)
(* whole days; NullDate stands for a null Date.                            *)
(***************************************************************************)
EXTENDS Integers, Sequences, FiniteSets, TLC

VARIABLES data, deviceMap, pc, idx, analytics, pending, previous, norm,
          search, paging, files, lastUpdated, chosen

vars == <<data, deviceMap, pc, idx, analytics, pending, previous, norm,
          search, paging, files, lastUpdated, chosen>>

\* ------------------------------------------------------------------ bounds

\* Largest number of rows stored over all five sources together.
MaxRows == 3

\* Largest number of files whose parse is running at the same time.
MaxPending == 2

\* Longest hostname text handed to normalizeHostname on its own.
MaxLen == 3

\* ------------------------------------------------------------ JS values

Null == "NULL"
JsTrue == "#true"
JsFalse == "#false"
JsZero == "#0"

\* !v of JavaScript, for the values above.
Falsy(v) == v \in {Null, JsFalse, JsZero, ""}

\* a || b
Or(a, b) == IF Falsy(a) THEN b ELSE a

\* A null Date; every Date object is truthy, so !date holds exactly for this.
NullDate == -1

\* The raw date strings of the rows and the day each valid one denotes.
DateDay == [x \in {"day10", "day55", "day100"} |->
              CASE x = "day10" -> 10 [] x = "day55" -> 55 [] x = "day100" -> 100]

parseDate(dateStr) ==
    IF Falsy(dateStr) THEN NullDate
    ELSE IF dateStr \in DOMAIN DateDay THEN DateDay[dateStr]
    ELSE NullDate

\* --------------------------------------------------------------- hostnames

\* The hostname cell when it is null/undefined (or the number 0).
NullHost == <<Null>>
ZeroHost == <<JsZero>>

IsSpace(c) == c \in {" ", "\t"}

toLowerCase(c) ==
    CASE c = "P" -> "p" [] c = "C" -> "c" [] c = "W" -> "w" [] c = "S" -> "s"
      [] OTHER -> c

RECURSIVE TrimLeft(_)
TrimLeft(s) == IF s # <<>> /\ IsSpace(Head(s)) THEN TrimLeft(Tail(s)) ELSE s

RECURSIVE TrimRight(_)
TrimRight(s) ==
    IF s # <<>> /\ IsSpace(s[Len(s)]) THEN TrimRight(SubSeq(s, 1, Len(s) - 1)) ELSE s

trim(s) == TrimRight(TrimLeft(s))

\* s.replace(/\s+/g, '-'): every maximal run of whitespace becomes one hyphen.
RECURSIVE ReplaceSpaceRuns(_)
ReplaceSpaceRuns(s) ==
    IF s = <<>> THEN <<>>
    ELSE IF IsSpace(Head(s)) THEN <<"-">> \o ReplaceSpaceRuns(TrimLeft(s))
    ELSE <<Head(s)>> \o ReplaceSpaceRuns(Tail(s))

normalizeHostnameNoTrim(hostname) ==
    IF hostname \in {NullHost, ZeroHost, <<>>} THEN <<>>
    ELSE ReplaceSpaceRuns([i \in 1..Len(hostname) |-> toLowerCase(hostname[i])])

normalizeHostname(hostname) ==
    IF hostname \in {NullHost, ZeroHost, <<>>} THEN <<>>
    ELSE ReplaceSpaceRuns(trim([i \in 1..Len(hostname) |-> toLowerCase(hostname[i])]))

\* a || b on hostname cells
OrHost(a, b) == IF a \in {NullHost, ZeroHost, <<>>} THEN b ELSE a

\* ------------------------------------------------------------ the CSV rows

\* Hostname cells as they appear in the uploaded files.
HostPC1 == <<"P", "C", " ", "1">>
HostPc1Padded == <<" ", "P", "c", " ", " ", "1", " ">>
HostPC1Hyphen == <<"P", "C", "-", "1">>
Hostpc1 == <<"p", "c", "-", "1">>
HostPC2 == <<"P", "C", "2">>
HostBlank == <<" ">>
HostWS100 == <<"W", "S", "-", "1", "0", "0">>

\* One row of each source: the columns the merge reads (the columns that are
\* only copied into a detail record and never read again are left out).
CsRow(H, h, sn, mfg, mdl, seen, plat, dd, usr) ==
    [Hostname |-> H, hostname |-> h, SerialNumber |-> sn, Manufacturer |-> mfg,
     Model |-> mdl, LastSeen |-> seen, Platform |-> plat,
     DetectionsDisabled |-> dd, LastLoggedInUserAccount |-> usr]

AzRow(name, mdl, en, os, comp, signin, usr) ==
    [displayName |-> name, model |-> mdl, accountEnabled |-> en,
     operatingSystem |-> os, isCompliant |-> comp,
     approximateLastSignInDateTime |-> signin, userNames |-> usr]

InRow(name, sn, mfg, mdl, checkin, osv, comp, enc, upn, disp) ==
    [DeviceName |-> name, SerialNumber |-> sn, Manufacturer |-> mfg, Model |-> mdl,
     LastCheckIn |-> checkin, OSVersion |-> osv, Compliance |-> comp,
     Encrypted |-> enc, PrimaryUserUPN |-> upn, PrimaryUserDisplayName |-> disp]

FdRow(name, mdl, loc, dept, used) ==
    [Name |-> name, Model |-> mdl, Location |-> loc, Department |-> dept,
     UsedBy |-> used]

AdRow(name, en, logon, os) ==
    [Name |-> name, Enabled |-> en, lastLogonTimestamp |-> logon,
     OperatingSystem |-> os]

CrowdstrikeRows ==
    { CsRow(HostPC1, NullHost, "SN-1", "Dell", "Latitude", "day100", "Windows", "No", "alice"),
      CsRow(HostPC1, NullHost, Null, Null, Null, Null, Null, "Yes", Null),
      CsRow(NullHost, Hostpc1, JsZero, Null, Null, "day10", "Mac", "No", JsZero),
      CsRow(HostPC2, NullHost, "SN-1", "Dell", Null, "not a date", "Windows", "Yes", "bob"),
      CsRow(NullHost, NullHost, "SN-1", "Dell", "Latitude", "day100", "Windows", "Yes", "alice"),
      CsRow(HostWS100, NullHost, "SN-3", "Lenovo", "ThinkPad", "day100", "Windows", "Yes", "frank") }

AzureRows ==
    { AzRow(Hostpc1, "Surface", JsTrue, "Windows", JsTrue, "day55", "carol"),
      AzRow(Hostpc1, Null, JsFalse, Null, JsFalse, "day10", Null),
      AzRow(HostPC2, "Surface", "False", "iOS", Null, Null, "carol"),
      AzRow(HostBlank, "Surface", JsFalse, "Windows", JsFalse, "day10", "carol") }

IntuneRows ==
    { InRow(HostPc1Padded, "SN-2", "HP", "Elite", "day100", "10.0", "Compliant", "Yes", "dave@x", Null),
      InRow(Hostpc1, Null, Null, Null, "day10", Null, "Noncompliant", "No", Null, "Dave"),
      InRow(HostPC2, "SN-1", "HP", Null, Null, "iOS 17", "Compliant", "No", Null, Null),
      InRow(NullHost, "SN-2", "HP", "Elite", "day10", "10.0", "Noncompliant", "No", "dave@x", Null) }

FreshdeskRows ==
    { FdRow(HostPC1, "Optiplex", "NYC", "Finance", "erin"),
      FdRow(Hostpc1, Null, Null, Null, Null),
      FdRow(HostPC2, Null, "LA", "IT", Null),
      FdRow(NullHost, "Optiplex", "NYC", "Finance", "erin"),
      FdRow(HostPC2, Null, Null, "Unassigned", Null) }

ActiveDirectoryRows ==
    { AdRow(HostPC1Hyphen, JsTrue, "day100", "Windows Server"),
      AdRow(Hostpc1, "False", "day55", Null),
      AdRow(HostPC2, JsFalse, Null, "Windows 10"),
      AdRow(HostBlank, JsFalse, "day10", "Windows 10") }

\* The sources in the order the analytics callback folds them.
Order == <<"crowdstrike", "azure", "intune", "freshdesk", "activedirectory">>
Sources == {Order[k] : k \in 1..Len(Order)}

RowsOf(src) ==
    CASE src = "crowdstrike" -> CrowdstrikeRows
      [] src = "azure" -> AzureRows
      [] src = "intune" -> IntuneRows
      [] src = "freshdesk" -> FreshdeskRows
      [] src = "activedirectory" -> ActiveDirectoryRows

\* The instants at which `new Date()` may be taken by a run (in days).
NowValues == {100, 101}

\* ----------------------------------------------------------------- devices

NoCrowdstrike ==
    [present |-> FALSE, lastSeen |-> NullDate, platform |-> Null,
     detectionsDisabled |-> Null, lastUser |-> Null]
NoAzure ==
    [present |-> FALSE, accountEnabled |-> Null, operatingSystem |-> Null,
     isCompliant |-> Null, lastSignIn |-> NullDate, userNames |-> Null]
NoIntune ==
    [present |-> FALSE, lastCheckIn |-> NullDate, osVersion |-> Null,
     compliance |-> Null, encrypted |-> Null, primaryUser |-> Null,
     serialNumber |-> Null]
NoFreshdesk ==
    [present |-> FALSE, location |-> Null, department |-> Null, usedBy |-> Null]
NoActiveDirectory ==
    [present |-> FALSE, enabled |-> Null, lastLogon |-> NullDate,
     operatingSystem |-> Null]

\* riskScore of a device the scorer has not reached yet (the property is absent).
NoRisk == -1

\* The object literal of deviceMap.set(hostname, {...}).
NewDevice(hostname, sn, mfg, mdl) ==
    [hostname |-> hostname, sources |-> <<>>, serialNumber |-> sn,
     manufacturer |-> mfg, model |-> mdl, lastSeen |-> NullDate, user |-> Null,
     department |-> Null, location |-> Null,
     crowdstrike |-> NoCrowdstrike, azure |-> NoAzure, intune |-> NoIntune,
     freshdesk |-> NoFreshdesk, activedirectory |-> NoActiveDirectory,
     riskScore |-> NoRisk]

\* deviceMap is the Map in insertion order: a sequence of devices.
MapHasNever(map, hostname) == FALSE

MapHas(map, hostname) == \E i \in DOMAIN map : map[i].hostname = hostname

MapIndex(map, hostname) ==
    CHOOSE i \in DOMAIN map :
        /\ map[i].hostname = hostname
        /\ \A j \in DOMAIN map : map[j].hostname = hostname => i <= j

\* if (!deviceMap.has(hostname)) deviceMap.set(hostname, fresh)
Ensure(map, hostname, fresh) ==
    IF MapHas(map, hostname) THEN map ELSE Append(map, fresh)

Includes(seq, x) == \E i \in DOMAIN seq : seq[i] = x

\* dev.sources.push(tag)
Push(sources, tag) == Append(sources, tag)

PushNever(sources, tag) == sources

\* if (!dev.sources.includes(tag)) dev.sources.push(tag)
PushIfAbsent(sources, tag) ==
    IF Includes(sources, tag) THEN sources ELSE Append(sources, tag)

\* if (!dev.lastSeen && date) dev.lastSeen = date
FillDate(cur, date) == IF cur = NullDate /\ date # NullDate THEN date ELSE cur

\* if (!dev.field && value) dev.field = value
FillAlways(cur, value) == IF ~Falsy(value) THEN value ELSE cur

Fill(cur, value) == IF Falsy(cur) /\ ~Falsy(value) THEN value ELSE cur

\* ---------------------------------------------------- the merge, row by row

\* The identity key each source's callback computes for a row.
HostnameOf(src, row) ==
    CASE src = "crowdstrike" -> normalizeHostname(OrHost(row.Hostname, row.hostname))
      [] src = "azure" -> normalizeHostname(row.displayName)
      [] src = "intune" -> normalizeHostname(row.DeviceName)
      [] src = "freshdesk" -> normalizeHostname(row.Name)
      [] src = "activedirectory" -> normalizeHostname(row.Name)

CrowdstrikeDetail(row) ==
    [present |-> TRUE, lastSeen |-> parseDate(row.LastSeen), platform |-> row.Platform,
     detectionsDisabled |-> row.DetectionsDisabled,
     lastUser |-> row.LastLoggedInUserAccount]

AzureDetail(row) ==
    [present |-> TRUE, accountEnabled |-> row.accountEnabled,
     operatingSystem |-> row.operatingSystem, isCompliant |-> row.isCompliant,
     lastSignIn |-> parseDate(row.approximateLastSignInDateTime),
     userNames |-> row.userNames]

IntuneDetail(row) ==
    [present |-> TRUE, lastCheckIn |-> parseDate(row.LastCheckIn),
     osVersion |-> row.OSVersion, compliance |-> row.Compliance,
     encrypted |-> row.Encrypted,
     primaryUser |-> Or(row.PrimaryUserUPN, row.PrimaryUserDisplayName),
     serialNumber |-> row.SerialNumber]

FreshdeskDetail(row) ==
    [present |-> TRUE, location |-> row.Location, department |-> row.Department,
     usedBy |-> row.UsedBy]

ActiveDirectoryDetail(row) ==
    [present |-> TRUE, enabled |-> row.Enabled,
     lastLogon |-> parseDate(row.lastLogonTimestamp),
     operatingSystem |-> row.OperatingSystem]

SetLastSeenIfNull(cur, date) == IF cur = NullDate THEN date ELSE cur

\* dev.lastSeen = dev.crowdstrike.lastSeen
SetLastSeen(cur, date) == date

SetUserIfFalsy(cur, value) == IF Falsy(cur) THEN value ELSE cur

\* dev.user = dev.crowdstrike.lastUser
SetUser(cur, value) == value

\* data.crowdstrike.forEach(device => {...})
MergeCrowdstrikeRow(map, row) ==
    LET hostname == HostnameOf("crowdstrike", row)
        m == Ensure(map, hostname,
                    NewDevice(hostname, row.SerialNumber, row.Manufacturer, row.Model))
        i == MapIndex(m, hostname)
        det == CrowdstrikeDetail(row)
    IN  IF hostname = <<>> THEN map
        ELSE [m EXCEPT ![i] =
                [@ EXCEPT !.sources = Push(@, "crowdstrike"),
                          !.crowdstrike = det,
                          !.lastSeen = SetLastSeen(@, det.lastSeen),
                          !.user = SetUser(@, det.lastUser)]]

\* data.azure.forEach(device => {...})
MergeAzureRow(map, row) ==
    LET hostname == HostnameOf("azure", row)
        m == Ensure(map, hostname, NewDevice(hostname, Null, Null, row.model))
        i == MapIndex(m, hostname)
        det == AzureDetail(row)
    IN  IF hostname = <<>> THEN map
        ELSE [m EXCEPT ![i] =
                [@ EXCEPT !.sources = PushIfAbsent(@, "azure"),
                          !.azure = det,
                          !.lastSeen = FillDate(@, det.lastSignIn),
                          !.user = Fill(@, det.userNames)]]

MergeIntuneRowKeepFirst(map, row) ==
    LET hostname == HostnameOf("intune", row)
        m == Ensure(map, hostname,
                    NewDevice(hostname, row.SerialNumber, row.Manufacturer, row.Model))
        i == MapIndex(m, hostname)
        det == IntuneDetail(row)
    IN  IF hostname = <<>> THEN map
        ELSE [m EXCEPT ![i] =
                [@ EXCEPT !.sources = PushIfAbsent(@, "intune"),
                          !.intune = IF @.present THEN @ ELSE det,
                          !.lastSeen = FillDate(@, det.lastCheckIn),
                          !.user = Fill(@, det.primaryUser),
                          !.serialNumber = Fill(@, det.serialNumber)]]

\* data.intune.forEach(device => {...})
MergeIntuneRow(map, row) ==
    LET hostname == HostnameOf("intune", row)
        m == Ensure(map, hostname,
                    NewDevice(hostname, row.SerialNumber, row.Manufacturer, row.Model))
        i == MapIndex(m, hostname)
        det == IntuneDetail(row)
    IN  IF hostname = <<>> THEN map
        ELSE [m EXCEPT ![i] =
                [@ EXCEPT !.sources = PushIfAbsent(@, "intune"),
                          !.intune = det,
                          !.lastSeen = FillDate(@, det.lastCheckIn),
                          !.user = Fill(@, det.primaryUser),
                          !.serialNumber = Fill(@, det.serialNumber)]]

\* dev.department = dev.freshdesk.department (and location)
AssignIfNull(cur, value) == IF cur = Null THEN value ELSE cur

Assign(cur, value) == value

MergeFreshdeskRowNoGuard(map, row) ==
    LET hostname == HostnameOf("freshdesk", row)
        m == Ensure(map, hostname, NewDevice(hostname, Null, Null, row.Model))
        i == MapIndex(m, hostname)
        det == FreshdeskDetail(row)
    IN  [m EXCEPT ![i] =
            [@ EXCEPT !.sources = PushIfAbsent(@, "freshdesk"),
                      !.freshdesk = det,
                      !.department = Assign(@, det.department),
                      !.location = Assign(@, det.location),
                      !.user = Fill(@, det.usedBy)]]

\* data.freshdesk.forEach(device => {...})
MergeFreshdeskRow(map, row) ==
    LET hostname == HostnameOf("freshdesk", row)
        m == Ensure(map, hostname, NewDevice(hostname, Null, Null, row.Model))
        i == MapIndex(m, hostname)
        det == FreshdeskDetail(row)
    IN  IF hostname = <<>> THEN map
        ELSE [m EXCEPT ![i] =
                [@ EXCEPT !.sources = PushIfAbsent(@, "freshdesk"),
                          !.freshdesk = det,
                          !.department = Assign(@, det.department),
                          !.location = Assign(@, det.location),
                          !.user = Fill(@, det.usedBy)]]

\* data.activedirectory.forEach(device => {...})
MergeActiveDirectoryRow(map, row) ==
    LET hostname == HostnameOf("activedirectory", row)
        m == Ensure(map, hostname, NewDevice(hostname, Null, Null, Null))
        i == MapIndex(m, hostname)
        det == ActiveDirectoryDetail(row)
    IN  IF hostname = <<>> THEN map
        ELSE [m EXCEPT ![i] =
                [@ EXCEPT !.sources = PushIfAbsent(@, "activedirectory"),
                          !.activedirectory = det,
                          !.lastSeen = FillDate(@, det.lastLogon)]]

MergeRow(src, map, row) ==
    CASE src = "crowdstrike" -> MergeCrowdstrikeRow(map, row)
      [] src = "azure" -> MergeAzureRow(map, row)
      [] src = "intune" -> MergeIntuneRow(map, row)
      [] src = "freshdesk" -> MergeFreshdeskRow(map, row)
      [] src = "activedirectory" -> MergeActiveDirectoryRow(map, row)

\* ------------------------------------------------------------- risk score

\* (now - d.lastSeen) / (1000 * 60 * 60 * 24), with both instants in days
DaysSince(now, date) == now - date

StaleDays == 90

riskScoreAtLeast90(d, now) ==
    (IF ~Includes(d.sources, "crowdstrike") THEN 30 ELSE 0)
    + (IF d.crowdstrike.present /\ d.crowdstrike.detectionsDisabled = "Yes" THEN 25 ELSE 0)
    + (IF \/ (d.azure.present /\ d.azure.isCompliant = JsFalse)
          \/ (d.intune.present /\ d.intune.compliance = "Noncompliant")
       THEN 20 ELSE 0)
    + (IF d.intune.present /\ d.intune.encrypted = "No" THEN 15 ELSE 0)
    + (IF d.lastSeen # NullDate /\ DaysSince(now, d.lastSeen) >= StaleDays THEN 10 ELSE 0)

riskScoreCountsBoth(d, now) ==
    (IF ~Includes(d.sources, "crowdstrike") THEN 30 ELSE 0)
    + (IF d.crowdstrike.present /\ d.crowdstrike.detectionsDisabled = "Yes" THEN 25 ELSE 0)
    + (IF d.azure.present /\ d.azure.isCompliant = JsFalse THEN 20 ELSE 0)
    + (IF d.intune.present /\ d.intune.compliance = "Noncompliant" THEN 20 ELSE 0)
    + (IF d.intune.present /\ d.intune.encrypted = "No" THEN 15 ELSE 0)
    + (IF d.lastSeen # NullDate /\ DaysSince(now, d.lastSeen) > StaleDays THEN 10 ELSE 0)

riskScoreEdrAbsentAlways(d, now) ==
    30
    + (IF d.crowdstrike.present /\ d.crowdstrike.detectionsDisabled = "Yes" THEN 25 ELSE 0)
    + (IF \/ (d.azure.present /\ d.azure.isCompliant = JsFalse)
          \/ (d.intune.present /\ d.intune.compliance = "Noncompliant")
       THEN 20 ELSE 0)
    + (IF d.intune.present /\ d.intune.encrypted = "No" THEN 15 ELSE 0)
    + (IF d.lastSeen # NullDate /\ DaysSince(now, d.lastSeen) > StaleDays THEN 10 ELSE 0)

\* devices.forEach(d => { let risk = 0; ...; d.riskScore = risk; })
riskScore(d, now) ==
    (IF ~Includes(d.sources, "crowdstrike") THEN 30 ELSE 0)
    + (IF d.crowdstrike.present /\ d.crowdstrike.detectionsDisabled = "Yes" THEN 25 ELSE 0)
    + (IF \/ (d.azure.present /\ d.azure.isCompliant = JsFalse)
          \/ (d.intune.present /\ d.intune.compliance = "Noncompliant")
       THEN 20 ELSE 0)
    + (IF d.intune.present /\ d.intune.encrypted = "No" THEN 15 ELSE 0)
    + (IF d.lastSeen # NullDate /\ DaysSince(now, d.lastSeen) > StaleDays THEN 10 ELSE 0)

\* ------------------------------------------------------------- aggregates

\* if (!d.lastSeen) return false; return daysSince > 45   (staleDevices45)
InStaleDevices45(d, now) == d.lastSeen # NullDate /\ DaysSince(now, d.lastSeen) > 45

InStaleDevices90NoGuard(d, now) == DaysSince(now, d.lastSeen) > StaleDays

\* if (!d.lastSeen) return false; return daysSince > 90   (staleDevices90)
InStaleDevices90(d, now) == d.lastSeen # NullDate /\ DaysSince(now, d.lastSeen) > StaleDays

ActiveWithin45Strict(d, now) == d.lastSeen # NullDate /\ DaysSince(now, d.lastSeen) < 45

\* if (!d.lastSeen) return false; return daysSince <= 45  (the ...ActiveWithin45 filters)
ActiveWithin45(d, now) == d.lastSeen # NullDate /\ DaysSince(now, d.lastSeen) <= 45

\* os.toLowerCase().includes(keyword): the keywords that the lower-cased text
\* of each operating-system cell of the rows contains.
OsKeywords(os) ==
    CASE os \in {"Windows", "Windows Server", "Windows 10"} -> {"windows"}
      [] os = "Mac" -> {"mac"}
      [] os \in {"iOS", "iOS 17"} -> {"ios"}
      [] OTHER -> {}

\* d.crowdstrike?.platform || d.azure?.operatingSystem
\*   || d.activedirectory?.operatingSystem || ''
DesktopOs(d) ==
    Or(d.crowdstrike.platform,
       Or(d.azure.operatingSystem, Or(d.activedirectory.operatingSystem, "")))

\* String(d.crowdstrike?.platform || d.azure?.operatingSystem
\*        || d.intune?.osVersion || '')
MobileOs(d) ==
    Or(d.crowdstrike.platform,
       Or(d.azure.operatingSystem, Or(d.intune.osVersion, "")))

InWindowsDevices(d) == "windows" \in OsKeywords(DesktopOs(d))
InMacOSDevices(d) == OsKeywords(DesktopOs(d)) \cap {"mac", "darwin"} # {}
InIOSDevices(d) == OsKeywords(MobileOs(d)) \cap {"ios", "iphone", "ipad"} # {}
InAndroidDevices(d) == "android" \in OsKeywords(MobileOs(d))

IsDisabledValueBooleanOnly(x) == x = JsFalse

\* x === false || x === 'false' || x === 'False'
IsDisabledValue(x) == x \in {JsFalse, "false", "False"}

InAllDisabledDevices(d) ==
    \/ d.azure.present /\ IsDisabledValue(d.azure.accountEnabled)
    \/ d.activedirectory.present /\ IsDisabledValue(d.activedirectory.enabled)

InUnprotectedDevicesAnySource(d) == ~Includes(d.sources, "crowdstrike")

\* (azure tag or intune tag) and no crowdstrike tag
InUnprotectedDevices(d) ==
    /\ Includes(d.sources, "azure") \/ Includes(d.sources, "intune")
    /\ ~Includes(d.sources, "crowdstrike")

\* The distinct values of a sequence in the order of their first occurrence:
\* the own keys of an object in insertion order.
RECURSIVE KeysInOrder(_)
KeysInOrder(seq) ==
    IF seq = <<>> THEN <<>>
    ELSE LET front == KeysInOrder(SubSeq(seq, 1, Len(seq) - 1))
         IN  IF Includes(front, seq[Len(seq)]) THEN front
             ELSE Append(front, seq[Len(seq)])

\* const mfg = d.manufacturer || 'Unknown'
MfgOf(d) == Or(d.manufacturer, "Unknown")

\* Object.entries(mfgCount).map(([name, value]) => ({ name, value }))
mfgEntries(devices) ==
    LET keys == KeysInOrder([i \in DOMAIN devices |-> MfgOf(devices[i])])
    IN  [k \in DOMAIN keys |->
           [name |-> keys[k],
            value |-> Len(SelectSeq(devices, LAMBDA d : MfgOf(d) = keys[k]))]]

\* .slice(0, n)
Slice(seq, n) == SubSeq(seq, 1, IF Len(seq) < n THEN Len(seq) ELSE n)

MfgShown == 8

mfgData(devices) == Slice(mfgEntries(devices), MfgShown)

DeptOfNoDefault(d) == d.department

\* const dept = d.department || 'Unassigned'
DeptOf(d) == Or(d.department, "Unassigned")

\* (d.azure && d.azure.isCompliant !== false)
\*   && (d.intune && d.intune.compliance !== 'Noncompliant')
InDeptCompliant(d) ==
    /\ d.azure.present /\ d.azure.isCompliant # JsFalse
    /\ d.intune.present /\ d.intune.compliance # "Noncompliant"

InDeptStaleNoGuard(d, now) == DaysSince(now, d.lastSeen) > 30

\* if (d.lastSeen) { ...; if (daysSince > 30) deptStats[dept].stale += 1; }
InDeptStale(d, now) == d.lastSeen # NullDate /\ DaysSince(now, d.lastSeen) > 30

\* Math.round((part / total) * 100)
RoundedRate(part, total) == (200 * part + total) \div (2 * total)

\* deptStats[dept] after the devices.forEach, with the two rates of departmentData.
DeptEntry(devices, now, dept) ==
    LET members == SelectSeq(devices, LAMBDA d : DeptOf(d) = dept)
        total == Len(members)
        protected == Len(SelectSeq(members, LAMBDA d : Includes(d.sources, "crowdstrike")))
        compliant == Len(SelectSeq(members, InDeptCompliant))
    IN  [name |-> dept,
         total |-> total,
         protected |-> protected,
         compliant |-> compliant,
         encrypted |-> Len(SelectSeq(members, LAMBDA d : d.intune.present /\ d.intune.encrypted = "Yes")),
         stale |-> Len(SelectSeq(members, LAMBDA d : InDeptStale(d, now))),
         highRisk |-> Len(SelectSeq(members, LAMBDA d : d.riskScore >= 50)),
         protectionRate |-> IF total > 0 THEN RoundedRate(protected, total) ELSE 0,
         complianceRate |-> IF total > 0 THEN RoundedRate(compliant, total) ELSE 0]

\* .sort((a, b) => b.total - a.total): a stable sort, larger totals first.
InsertByTotal(sorted, g) ==
    LET k == Cardinality({i \in DOMAIN sorted : sorted[i].total >= g.total})
    IN  SubSeq(sorted, 1, k) \o <<g>> \o SubSeq(sorted, k + 1, Len(sorted))

RECURSIVE SortByTotal(_)
SortByTotal(seq) ==
    IF seq = <<>> THEN <<>>
    ELSE InsertByTotal(SortByTotal(SubSeq(seq, 1, Len(seq) - 1)), seq[Len(seq)])

departmentData(devices, now) ==
    LET keys == KeysInOrder([i \in DOMAIN devices |-> DeptOf(devices[i])])
    IN  SortByTotal([k \in DOMAIN keys |-> DeptEntry(devices, now, keys[k])])

\* The Status cell of a row of the device table.
statusCell(d) ==
    IF ~Includes(d.sources, "crowdstrike") THEN "No AV"
    ELSE IF d.crowdstrike.detectionsDisabled = "Yes" THEN "Det. Off"
    ELSE IF d.azure.isCompliant = JsFalse \/ d.intune.compliance = "Noncompliant"
         THEN "Non-Comp"
    ELSE "OK"

\* devices.filter(d => d.sources.includes(tag)).length
HasSource(devices, tag) == Len(SelectSeq(devices, LAMBDA d : Includes(d.sources, tag)))

\* (d.azure && d.azure.isCompliant === false)
\*   || (d.intune && d.intune.compliance === 'Noncompliant')
InNonCompliantDevices(d) ==
    \/ d.azure.present /\ d.azure.isCompliant = JsFalse
    \/ d.intune.present /\ d.intune.compliance = "Noncompliant"

\* d.crowdstrike && d.crowdstrike.detectionsDisabled === 'Yes'
InDetectionsDisabled(d) == d.crowdstrike.present /\ d.crowdstrike.detectionsDisabled = "Yes"

\* d.intune && d.intune.encrypted === 'No'
InUnencryptedDevices(d) == d.intune.present /\ d.intune.encrypted = "No"

InDisabledDevicesAzure(d) == d.azure.present /\ IsDisabledValue(d.azure.accountEnabled)

InDisabledDevicesAD(d) ==
    d.activedirectory.present /\ IsDisabledValue(d.activedirectory.enabled)

\* The two slices of the compliance pie chart.
complianceData(devices) ==
    [compliant |-> Len(devices) - Len(SelectSeq(devices, InNonCompliantDevices)),
     nonCompliant |-> Len(SelectSeq(devices, InNonCompliantDevices))]

\* The object the analytics useMemo returns for the scored devices.
AnalyticsOf(devices, now) ==
    [ready |-> TRUE,
     now |-> now,
     devices |-> devices,
     totalDevices |-> Len(devices),
     hasCrowdstrike |-> HasSource(devices, "crowdstrike"),
     hasAzure |-> HasSource(devices, "azure"),
     hasIntune |-> HasSource(devices, "intune"),
     hasFreshdesk |-> HasSource(devices, "freshdesk"),
     hasActiveDirectory |-> HasSource(devices, "activedirectory"),
     nonCompliantDevices |-> Len(SelectSeq(devices, InNonCompliantDevices)),
     detectionsDisabled |-> Len(SelectSeq(devices, InDetectionsDisabled)),
     unencryptedDevices |-> Len(SelectSeq(devices, InUnencryptedDevices)),
     disabledDevicesAzure |-> Len(SelectSeq(devices, InDisabledDevicesAzure)),
     disabledDevicesAD |-> Len(SelectSeq(devices, InDisabledDevicesAD)),
     complianceData |-> complianceData(devices),
     unprotectedDevices |-> Len(SelectSeq(devices, InUnprotectedDevices)),
     staleDevices45 |-> Len(SelectSeq(devices, LAMBDA d : InStaleDevices45(d, now))),
     staleDevices90 |-> Len(SelectSeq(devices, LAMBDA d : InStaleDevices90(d, now))),
     highRiskDevices |-> Len(SelectSeq(devices, LAMBDA d : d.riskScore >= 50)),
     windowsDevices |-> Len(SelectSeq(devices, InWindowsDevices)),
     windowsActiveWithin45 |->
         Len(SelectSeq(devices, LAMBDA d : InWindowsDevices(d) /\ ActiveWithin45(d, now))),
     macOSDevices |-> Len(SelectSeq(devices, InMacOSDevices)),
     macOSActiveWithin45 |->
         Len(SelectSeq(devices, LAMBDA d : InMacOSDevices(d) /\ ActiveWithin45(d, now))),
     iOSDevices |-> Len(SelectSeq(devices, InIOSDevices)),
     iOSActiveWithin45 |->
         Len(SelectSeq(devices, LAMBDA d : InIOSDevices(d) /\ ActiveWithin45(d, now))),
     androidDevices |-> Len(SelectSeq(devices, InAndroidDevices)),
     androidActiveWithin45 |->
         Len(SelectSeq(devices, LAMBDA d : InAndroidDevices(d) /\ ActiveWithin45(d, now))),
     allDisabledDevices |-> Len(SelectSeq(devices, InAllDisabledDevices)),
     disabledActiveWithin45 |->
         Len(SelectSeq(devices, LAMBDA d : InAllDisabledDevices(d) /\ ActiveWithin45(d, now))),
     mfgData |-> mfgData(devices),
     departmentData |-> departmentData(devices, now)]

\* ------------------------------------------------------------------ state

NoData == [src \in Sources |-> <<>>]

\* No hostname handed to normalizeHostname yet.
NoNorm == [step |-> 0, input |-> <<>>, other |-> <<>>, once |-> <<>>,
           otherOnce |-> <<>>, twice |-> <<>>]

\* The search box is empty and nothing has been filtered.
NoSearch == [step |-> 0, devices |-> <<>>, query |-> <<>>, result |-> <<>>, threw |-> FALSE]

\* useState(1) for currentPage; no analytics, so filteredDevices is [].
NoPaging == [shown |-> FALSE, filtered |-> 0, currentPage |-> 1]

\* files and lastUpdated start with null for every source; 0 stands for null.
NoFiles == [src \in Sources |-> 0]

\* analytics of a render whose useMemo has not returned yet, or returned null.
NoAnalytics == [AnalyticsOf(<<>>, 0) EXCEPT !.ready = FALSE]

TotalRows(d) ==
    Len(d["crowdstrike"]) + Len(d["azure"]) + Len(d["intune"])
    + Len(d["freshdesk"]) + Len(d["activedirectory"])

SeqsUpTo(S, n) == UNION {[1..k -> S] : k \in 0..n}

\* The first forEach callback still to run, from position k of Order on:
\* the first source that has rows, or the metrics block when none has.
RECURSIVE FirstLoop(_, _)
FirstLoop(d, k) ==
    IF k > Len(Order) THEN "metrics"
    ELSE IF d[Order[k]] # <<>> THEN Order[k]
    ELSE FirstLoop(d, k + 1)

OrderIndex(src) == CHOOSE k \in 1..Len(Order) : Order[k] = src

AllEmptyEdrOnly(d) == d["crowdstrike"] = <<>>

\* !data.crowdstrike.length && !data.azure.length && ... (all five)
AllEmpty(d) == \A src \in Sources : d[src] = <<>>

Init ==
    /\ data = NoData
    /\ deviceMap = <<>>
    /\ pc = "idle"
    /\ idx = 0
    /\ analytics = NoAnalytics
    /\ pending = {}
    /\ previous = NoAnalytics
    /\ norm = NoNorm
    /\ search = NoSearch
    /\ paging = NoPaging
    /\ files = NoFiles
    /\ lastUpdated = NoFiles
    /\ chosen = <<>>

UploadCompleteKeepsMap(fileType, rows) ==
    /\ pc = "idle"
    /\ TotalRows([data EXCEPT ![fileType] = rows]) <= MaxRows
    /\ data' = [data EXCEPT ![fileType] = rows]
    /\ deviceMap' = deviceMap
    /\ analytics' = NoAnalytics
    /\ pc' = IF AllEmpty(data') THEN "idle" ELSE FirstLoop(data', 1)
    /\ idx' = IF AllEmpty(data') THEN 0 ELSE 1

UploadCompleteAppends(fileType, rows) ==
    /\ pc = "idle"
    /\ TotalRows([data EXCEPT ![fileType] = @ \o rows]) <= MaxRows
    /\ data' = [data EXCEPT ![fileType] = @ \o rows]
    /\ deviceMap' = <<>>
    /\ analytics' = NoAnalytics
    /\ pc' = IF AllEmpty(data') THEN "idle" ELSE FirstLoop(data', 1)
    /\ idx' = IF AllEmpty(data') THEN 0 ELSE 1

\* Papa.parse's complete callback for a file of source fileType, followed by
\* the start of the render it schedules: useMemo returns null when no source
\* has rows and otherwise starts from an empty Map.
UploadComplete(fileType, rows) ==
    /\ pc = "idle"
    /\ TotalRows([data EXCEPT ![fileType] = rows]) <= MaxRows
    /\ data' = [data EXCEPT ![fileType] = rows]
    /\ deviceMap' = <<>>
    /\ analytics' = NoAnalytics
    /\ pc' = IF AllEmpty(data') THEN "idle" ELSE FirstLoop(data', 1)
    /\ idx' = IF AllEmpty(data') THEN 0 ELSE 1

\* One call of the forEach callback of source src, on row idx.
MergeStep(src) ==
    /\ pc = src
    /\ idx <= Len(data[src])
    /\ deviceMap' = MergeRow(src, deviceMap, data[src][idx])
    /\ IF idx < Len(data[src])
       THEN pc' = pc /\ idx' = idx + 1
       ELSE pc' = FirstLoop(data, OrderIndex(src) + 1) /\ idx' = 1
    /\ UNCHANGED <<data, analytics, pending, previous, norm, search, paging, files, lastUpdated, chosen>>

ProcessCrowdstrike == MergeStep("crowdstrike")
ProcessAzure == MergeStep("azure")
ProcessIntune == MergeStep("intune")
ProcessFreshdesk == MergeStep("freshdesk")
ProcessActiveDirectory == MergeStep("activedirectory")

\* The metrics block: devices = Array.from(deviceMap.values()), now = new Date(),
\* the risk score written into every device, and the analytics object returned.
ComputeMetrics ==
    /\ pc = "metrics"
    /\ \E now \in NowValues :
          /\ deviceMap' = [i \in DOMAIN deviceMap |->
                             [deviceMap[i] EXCEPT !.riskScore = riskScore(deviceMap[i], now)]]
          /\ analytics' = AnalyticsOf(deviceMap', now)
    /\ pc' = "idle"
    /\ idx' = 0
    /\ UNCHANGED <<data, pending, previous, norm, search, paging, files, lastUpdated, chosen>>

Upload == \E fileType \in Sources :
              \E rows \in SeqsUpTo(RowsOf(fileType),
                                   MaxRows - (TotalRows(data) - Len(data[fileType]))) :
                 /\ UploadComplete(fileType, rows)
                 /\ UNCHANGED <<pending, previous, norm, search, paging, files, lastUpdated, chosen>>

Next ==
    \/ Upload
    \/ ProcessCrowdstrike
    \/ ProcessAzure
    \/ ProcessIntune
    \/ ProcessFreshdesk
    \/ ProcessActiveDirectory
    \/ ComputeMetrics

Spec == Init /\ [][Next]_vars

\* The five forEach loops run one after the other, in the given order of the
\* sources, from the given Map.
RECURSIVE FoldRows(_, _, _)
FoldRows(src, map, rows) ==
    IF rows = <<>> THEN map
    ELSE FoldRows(src, MergeRow(src, map, Head(rows)), Tail(rows))

RECURSIVE MergeInOrder(_, _, _)
MergeInOrder(order, d, map) ==
    IF order = <<>> THEN map
    ELSE MergeInOrder(Tail(order), d, FoldRows(Head(order), map, d[Head(order)]))

\* ------------------------------------------------------- reading the state

\* The rows of source src the current run has folded so far.
Processed(src) ==
    IF pc \in {"idle", "metrics"} THEN data[src]
    ELSE IF OrderIndex(src) < OrderIndex(pc) THEN data[src]
    ELSE IF src = pc THEN SubSeq(data[src], 1, idx - 1)
    ELSE <<>>

\* The positions of the folded rows of src whose identity normalizes to h.
RowsFor(src, h) ==
    {k \in DOMAIN Processed(src) : HostnameOf(src, Processed(src)[k]) = h}

Max(S) == CHOOSE x \in S : \A y \in S : y <= x

\* The last folded row of src for hostname h (RowsFor(src, h) is not empty).
LastRowFor(src, h) == Processed(src)[Max(RowsFor(src, h))]

MergeDone == pc \in {"idle", "metrics"}

Devices == {deviceMap[i] : i \in DOMAIN deviceMap}

DeviceOf(map, h) == map[MapIndex(map, h)]

\* ----------------------------------------------------------------- claims

\* The non-empty normalized identity keys of the rows folded so far.
ProcessedKeys ==
    UNION {{HostnameOf(src, Processed(src)[k]) : k \in DOMAIN Processed(src)} :
             src \in Sources} \ {<<>>}

C2_NoDuplicateTags ==
    \A i \in DOMAIN deviceMap :
        \A a, b \in DOMAIN deviceMap[i].sources :
            deviceMap[i].sources[a] = deviceMap[i].sources[b] => a = b

\* C3: a platform tag is in a Device's sources exactly when a folded row of
\* that platform normalizes to the Device's hostname, and no Device has empty
\* sources.
C3_SourcesReflectRows ==
    \A i \in DOMAIN deviceMap :
        /\ deviceMap[i].sources # <<>>
        /\ \A src \in Sources :
              Includes(deviceMap[i].sources, src) <=> RowsFor(src, deviceMap[i].hostname) # {}

\* C3 witness: the merge is over and a Device reported by two platforms
\* stands next to a Device reported by one.
C3_Witness ==
    /\ MergeDone
    /\ \E i, j \in DOMAIN deviceMap :
          /\ deviceMap[i].sources = <<"azure", "activedirectory">>
          /\ deviceMap[j].sources = <<"intune">>

\* C4: the step that folds an EDR row for hostname h leaves Device h with the
\* row's parsed Last Seen as lastSeen and the row's last logged-in user as
\* user, whatever the two fields held before.
C4_EdrOverwrites ==
    [][(pc = "crowdstrike" /\ HostnameOf("crowdstrike", data["crowdstrike"][idx]) # <<>>)
       => LET row == data["crowdstrike"][idx]
              h == HostnameOf("crowdstrike", row)
          IN  /\ MapHas(deviceMap', h)
              /\ DeviceOf(deviceMap', h).lastSeen = parseDate(row.LastSeen)
              /\ DeviceOf(deviceMap', h).user = row.LastLoggedInUserAccount]_vars

\* C4 witness: a second EDR row for the same hostname, with an empty Last Seen
\* and no user, has just been folded over a first one that had both, and the
\* Device's lastSeen and user are null again.
C4_Witness ==
    /\ pc = "crowdstrike"
    /\ idx = 3
    /\ HostnameOf("crowdstrike", data["crowdstrike"][1])
         = HostnameOf("crowdstrike", data["crowdstrike"][2])
    /\ parseDate(data["crowdstrike"][1].LastSeen) # NullDate
    /\ data["crowdstrike"][1].LastLoggedInUserAccount = "alice"
    /\ data["crowdstrike"][2].LastSeen = Null
    /\ deviceMap[1].lastSeen = NullDate
    /\ deviceMap[1].user = Null

\* C5: at every point of the merge a Device with no folded AssetMgmt row has a
\* null department and location, and a Device with folded AssetMgmt rows has
\* the department and location of the last of them; so no row of another
\* platform changes either field.
C5_DepartmentFromAssetMgmt ==
    \A i \in DOMAIN deviceMap :
        LET d == deviceMap[i] IN
        IF RowsFor("freshdesk", d.hostname) = {}
        THEN d.department = Null /\ d.location = Null
        ELSE /\ d.department = LastRowFor("freshdesk", d.hostname).Department
             /\ d.location = LastRowFor("freshdesk", d.hostname).Location

\* C5 witness: the merge is over; a Device's first AssetMgmt row named a
\* department, its last one names none, an on-premises directory row followed,
\* and the department is null.
C5_Witness ==
    /\ MergeDone
    /\ Len(data["freshdesk"]) = 2
    /\ data["freshdesk"][1].Department = "Finance"
    /\ data["freshdesk"][2].Department = Null
    /\ \E i \in DOMAIN deviceMap :
          /\ RowsFor("freshdesk", deviceMap[i].hostname) = {1, 2}
          /\ deviceMap[i].activedirectory.present
          /\ deviceMap[i].department = Null
          /\ deviceMap[i].location = Null

\* The platforms whose rows only fill missing base fields.
FallbackSources == {"azure", "intune", "freshdesk", "activedirectory"}

\* The step condition of C6_NonNullKept.
C6_NonNullKeptStep ==
    pc \in FallbackSources
       => \A i \in DOMAIN deviceMap :
            /\ deviceMap[i].lastSeen # NullDate
                 => deviceMap'[i].lastSeen = deviceMap[i].lastSeen
            /\ deviceMap[i].user # Null => deviceMap'[i].user = deviceMap[i].user
            /\ deviceMap[i].serialNumber # Null
                 => deviceMap'[i].serialNumber = deviceMap[i].serialNumber
            /\ deviceMap[i].manufacturer # Null
                 => deviceMap'[i].manufacturer = deviceMap[i].manufacturer
            /\ deviceMap[i].model # Null => deviceMap'[i].model = deviceMap[i].model

\* C6 as claimed: a step that folds a Directory, MDM, AssetMgmt or
\* OnPremDirectory row changes none of lastSeen, user, serialNumber,
\* manufacturer and model of a Device in which that field is non-null.
C6_NonNullKept == [][C6_NonNullKeptStep]_vars

\* The step condition of C6_TruthyKept.
C6_TruthyKeptStep ==
    pc \in FallbackSources
       => \A i \in DOMAIN deviceMap :
            /\ deviceMap[i].lastSeen # NullDate
                 => deviceMap'[i].lastSeen = deviceMap[i].lastSeen
            /\ ~Falsy(deviceMap[i].user) => deviceMap'[i].user = deviceMap[i].user
            /\ ~Falsy(deviceMap[i].serialNumber)
                 => deviceMap'[i].serialNumber = deviceMap[i].serialNumber
            /\ ~Falsy(deviceMap[i].manufacturer)
                 => deviceMap'[i].manufacturer = deviceMap[i].manufacturer
            /\ ~Falsy(deviceMap[i].model) => deviceMap'[i].model = deviceMap[i].model

\* C6 amended: a step that folds a Directory, MDM, AssetMgmt or OnPremDirectory
\* row changes none of lastSeen, user, serialNumber, manufacturer and model of
\* a Device in which that field is truthy (not null and not one of the falsy
\* values 0, false, ''): those sources only fill fields that are falsy.
C6_TruthyKept == [][C6_TruthyKeptStep]_vars

\* C6 witness: a Directory row and an MDM row that offer another user, another
\* sign-in time and another serial number have been folded into a Device that
\* the EDR row had filled, and the Device still has the EDR row's values.
C6_Witness ==
    /\ MergeDone
    /\ \E i \in DOMAIN deviceMap :
          LET d == deviceMap[i] IN
          /\ d.crowdstrike.present /\ d.azure.present /\ d.intune.present
          /\ d.crowdstrike.lastUser = "alice" /\ d.azure.userNames = "carol"
          /\ d.crowdstrike.lastSeen = 100 /\ d.azure.lastSignIn = 55
          /\ d.intune.serialNumber = "SN-2"
          /\ d.user = "alice" /\ d.lastSeen = 100 /\ d.serialNumber = "SN-1"

\* The value each source's row offers for a base field (Null when the source
\* has no such column).
Offered(src, row, field) ==
    CASE src = "crowdstrike" ->
            (CASE field = "serialNumber" -> row.SerialNumber
               [] field = "manufacturer" -> row.Manufacturer
               [] field = "model" -> row.Model)
      [] src = "azure" -> (IF field = "model" THEN row.model ELSE Null)
      [] src = "intune" ->
            (CASE field = "serialNumber" -> row.SerialNumber
               [] field = "manufacturer" -> row.Manufacturer
               [] field = "model" -> row.Model)
      [] src = "freshdesk" -> (IF field = "model" THEN row.Model ELSE Null)
      [] src = "activedirectory" -> Null

\* The values offered for a field of hostname h, in processing order.
RECURSIVE OffersInRows(_, _, _, _)
OffersInRows(src, rows, h, field) ==
    IF rows = <<>> THEN <<>>
    ELSE (IF HostnameOf(src, Head(rows)) = h /\ Offered(src, Head(rows), field) # Null
          THEN <<Offered(src, Head(rows), field)>> ELSE <<>>)
         \o OffersInRows(src, Tail(rows), h, field)

RECURSIVE Offers(_, _, _)
Offers(order, h, field) ==
    IF order = <<>> THEN <<>>
    ELSE OffersInRows(Head(order), data[Head(order)], h, field)
         \o Offers(Tail(order), h, field)

FirstOffer(h, field) ==
    IF Offers(Order, h, field) = <<>> THEN Null ELSE Head(Offers(Order, h, field))

\* C7: after the merge each of serialNumber, manufacturer and model of a
\* Device is the first non-null value any row for its hostname offers for that
\* field, in processing order, and null when no row offers one.
C7_FirstWriterWins ==
    MergeDone =>
        \A i \in DOMAIN deviceMap :
            LET d == deviceMap[i] IN
            /\ d.serialNumber = FirstOffer(d.hostname, "serialNumber")
            /\ d.manufacturer = FirstOffer(d.hostname, "manufacturer")
            /\ d.model = FirstOffer(d.hostname, "model")

\* The processing order with the EDR rows folded after the other sources.
EdrLast == <<"azure", "intune", "freshdesk", "activedirectory", "crowdstrike">>

\* The device map when the same rows are folded with the EDR rows last.
MergedEdrLast == MergeInOrder(EdrLast, data, <<>>)

\* C8 as claimed: after the merge, a Device that has an EDR detail has the same
\* lastSeen and user as the Device of its hostname has when the EDR rows are
\* folded after the other sources' rows.
C8_EdrOrderIrrelevant ==
    pc = "metrics" =>
        \A i \in DOMAIN deviceMap :
            deviceMap[i].crowdstrike.present =>
                LET other == DeviceOf(MergedEdrLast, deviceMap[i].hostname) IN
                /\ deviceMap[i].lastSeen = other.lastSeen
                /\ deviceMap[i].user = other.user

\* C8 amended: after the merge, a Device whose EDR detail has a non-null
\* lastSeen has the same lastSeen whether the EDR rows are folded before or
\* after the other sources' rows, and a Device whose EDR detail has a truthy
\* last user has the same user in either order; when the EDR value is null
\* (or, for the user, falsy) the two orders may differ.
C8_EdrWinsWhenItHasAValue ==
    pc = "metrics" =>
        \A i \in DOMAIN deviceMap :
            deviceMap[i].crowdstrike.present =>
                LET other == DeviceOf(MergedEdrLast, deviceMap[i].hostname) IN
                /\ deviceMap[i].crowdstrike.lastSeen # NullDate
                     => deviceMap[i].lastSeen = other.lastSeen
                /\ ~Falsy(deviceMap[i].crowdstrike.lastUser)
                     => deviceMap[i].user = other.user

\* C8 witness: the merge is over for a Device whose EDR detail has a Last Seen
\* and a user and whose Directory detail offers another sign-in time and
\* another user.
C8_Witness ==
    /\ pc = "metrics"
    /\ \E i \in DOMAIN deviceMap :
          LET d == deviceMap[i] IN
          /\ d.crowdstrike.present /\ d.azure.present
          /\ d.crowdstrike.lastSeen = 100 /\ d.azure.lastSignIn = 55
          /\ d.crowdstrike.lastUser = "alice" /\ d.azure.userNames = "carol"
          /\ DeviceOf(MergedEdrLast, d.hostname).lastSeen = 100
          /\ DeviceOf(MergedEdrLast, d.hostname).user = "alice"

\* The rule table of the risk score, read off a scored Device.
EdrAbsent(d) == \A k \in DOMAIN d.sources : d.sources[k] # "crowdstrike"
DetectionsOff(d) == d.crowdstrike.present /\ d.crowdstrike.detectionsDisabled = "Yes"
DirectoryNonCompliant(d) == d.azure.present /\ d.azure.isCompliant = JsFalse
MdmNonCompliant(d) == d.intune.present /\ d.intune.compliance = "Noncompliant"
Unencrypted(d) == d.intune.present /\ d.intune.encrypted = "No"
StaleBeyond90(d, now) == d.lastSeen # NullDate /\ now - d.lastSeen >= 91

Points(cond, n) == IF cond THEN n ELSE 0

\* C9: every Device of a finished run has as riskScore the sum of the points
\* of the rules that hold of it: 30 EDR tag absent, 25 EDR detections disabled,
\* 20 non-compliant in Directory or MDM (once), 15 unencrypted in MDM, 10 last
\* seen strictly more than 90 days before now.
C9_RiskScoreIsRuleSum ==
    analytics.ready =>
        \A i \in DOMAIN analytics.devices :
            LET d == analytics.devices[i] IN
            d.riskScore =
                Points(EdrAbsent(d), 30) + Points(DetectionsOff(d), 25)
                + Points(DirectoryNonCompliant(d) \/ MdmNonCompliant(d), 20)
                + Points(Unencrypted(d), 15)
                + Points(StaleBeyond90(d, analytics.now), 10)

\* C9 witness: a scored Device that is non-compliant in both Directory and MDM,
\* unencrypted, absent from EDR and last seen exactly 90 days ago scores
\* 30 + 20 + 15 = 65.
C9_Witness ==
    /\ analytics.ready
    /\ \E i \in DOMAIN analytics.devices :
          LET d == analytics.devices[i] IN
          /\ DirectoryNonCompliant(d) /\ MdmNonCompliant(d) /\ Unencrypted(d)
          /\ EdrAbsent(d)
          /\ d.lastSeen # NullDate /\ analytics.now - d.lastSeen = 90
          /\ d.riskScore = 65

\* C10: every Device of a finished run has a riskScore between 0 and 100, and
\* a Device present in EDR with detections not disabled, not flagged
\* non-compliant, not flagged unencrypted and seen within 90 days scores 0.
C10_RiskScoreBounds ==
    analytics.ready =>
        \A i \in DOMAIN analytics.devices :
            LET d == analytics.devices[i] IN
            /\ d.riskScore \in 0..100
            /\ (/\ ~EdrAbsent(d) /\ ~DetectionsOff(d)
                /\ ~DirectoryNonCompliant(d) /\ ~MdmNonCompliant(d)
                /\ ~Unencrypted(d)
                /\ d.lastSeen # NullDate /\ analytics.now - d.lastSeen <= 90)
               => d.riskScore = 0

\* C10 witness: a scored Device present in EDR, Directory and MDM, compliant in
\* both, encrypted, with detections on and last seen today, scores 0, next to
\* a Device that scores more.
C10_Witness ==
    /\ analytics.ready
    /\ \E i \in DOMAIN analytics.devices :
          LET d == analytics.devices[i] IN
          /\ d.crowdstrike.present /\ d.azure.present /\ d.intune.present
          /\ d.crowdstrike.detectionsDisabled = "No"
          /\ d.azure.isCompliant = JsTrue /\ d.intune.compliance = "Compliant"
          /\ d.intune.encrypted = "Yes"
          /\ analytics.now - d.lastSeen = 0
          /\ d.riskScore = 0

\* The devices of the finished run that have, and that lack, a last-seen date.
Dated == {i \in DOMAIN analytics.devices : analytics.devices[i].lastSeen # NullDate}

Undated == {i \in DOMAIN analytics.devices : analytics.devices[i].lastSeen = NullDate}

\* Whole days between the run's now and the last-seen date of dated device i.
DaysUnseen(i) == analytics.now - analytics.devices[i].lastSeen

\* The date cells that are empty or that no Date can be built from.
NoDateCells == {Null, "", "not a date"}

RECURSIVE SumOfTotals(_)
SumOfTotals(groups) ==
    IF groups = <<>> THEN 0 ELSE Head(groups).total + SumOfTotals(Tail(groups))

\* A department value that deptStats files under "Unassigned".
MissingDepartment(x) == Falsy(x) \/ x = "Unassigned"

\* The devices of the finished run without a department, with a department
\* that is missing in the sense above, and with department name.
NullDepartment == {i \in DOMAIN analytics.devices : analytics.devices[i].department = Null}

NoDepartment ==
    {i \in DOMAIN analytics.devices : MissingDepartment(analytics.devices[i].department)}

InDepartment(name) ==
    {i \in DOMAIN analytics.devices : analytics.devices[i].department = name}

\* C13 (as stated): the totals of the department table add up to the total
\* device count, and the "Unassigned" group holds exactly the Devices whose
\* department is null.
C13_UnassignedIsNullDepartment ==
    analytics.ready =>
        LET dd == analytics.departmentData IN
        /\ SumOfTotals(dd) = analytics.totalDevices
        /\ \A g \in DOMAIN dd :
              dd[g].name = "Unassigned" =>
                  dd[g].total = Cardinality(NullDepartment)
        /\ NullDepartment # {} =>
              \E g \in DOMAIN dd : dd[g].name = "Unassigned"

\* C13 (amended): the totals of the department table add up to the total device
\* count, every Device is counted in exactly one group, and the "Unassigned"
\* group holds exactly the Devices whose department is null or another falsy
\* value (0, false, empty text) or is the text "Unassigned" itself; every other
\* group holds exactly the Devices with that department.
C13_UnassignedIsMissingDepartment ==
    analytics.ready =>
        LET dd == analytics.departmentData
        IN  /\ SumOfTotals(dd) = analytics.totalDevices
            /\ \A g, k \in DOMAIN dd : dd[g].name = dd[k].name => g = k
            /\ \A g \in DOMAIN dd :
                  dd[g].total =
                      IF dd[g].name = "Unassigned"
                      THEN Cardinality(NoDepartment)
                      ELSE Cardinality(InDepartment(dd[g].name))
            /\ NoDepartment # {} =>
                  \E g \in DOMAIN dd : dd[g].name = "Unassigned"
            /\ \A i \in DOMAIN analytics.devices :
                  ~MissingDepartment(analytics.devices[i].department) =>
                      \E g \in DOMAIN dd : dd[g].name = analytics.devices[i].department

\* C13 witness: a finished run with three devices, one of department Finance,
\* one without a department and one whose department cell reads "Unassigned":
\* the table has a Finance group of one and an "Unassigned" group of two.
C13_Witness ==
    /\ analytics.ready
    /\ analytics.totalDevices = 3
    /\ NullDepartment # {}
    /\ InDepartment("Unassigned") # {}
    /\ \E g, k \in DOMAIN analytics.departmentData :
          /\ analytics.departmentData[g].name = "Unassigned"
          /\ analytics.departmentData[g].total = 2
          /\ analytics.departmentData[k].name = "Finance"
          /\ analytics.departmentData[k].total = 1

\* ---------------------------------------------------- a second run (SpecRerun)

\* The stored rows at the start of a render: at most one row per source.
InitRerun ==
    /\ \E cs \in SeqsUpTo(CrowdstrikeRows, 1), az \in SeqsUpTo(AzureRows, 1),
          it \in SeqsUpTo(IntuneRows, 1), fd \in SeqsUpTo(FreshdeskRows, 1),
          ad \in SeqsUpTo(ActiveDirectoryRows, 1) :
          data = [crowdstrike |-> cs, azure |-> az, intune |-> it,
                  freshdesk |-> fd, activedirectory |-> ad]
    /\ TotalRows(data) <= MaxRows
    /\ deviceMap = <<>>
    /\ analytics = NoAnalytics
    /\ pc = IF AllEmpty(data) THEN "idle" ELSE FirstLoop(data, 1)
    /\ idx = IF AllEmpty(data) THEN 0 ELSE 1
    /\ pending = {}
    /\ previous = NoAnalytics
    /\ norm = NoNorm
    /\ search = NoSearch
    /\ paging = NoPaging
    /\ files = NoFiles
    /\ lastUpdated = NoFiles
    /\ chosen = <<>>

\* The same file of one source is uploaded again: data gets a new identity
\* with identical rows and the analytics useMemo runs a second time. The
\* analytics of the first run are kept for comparison.
Rerun ==
    /\ analytics.ready
    /\ ~previous.ready
    /\ \E fileType \in Sources : UploadComplete(fileType, data[fileType])
    /\ previous' = analytics
    /\ UNCHANGED <<pending, norm, search, paging, files, lastUpdated, chosen>>

NextRerun ==
    \/ Rerun
    \/ ProcessCrowdstrike
    \/ ProcessAzure
    \/ ProcessIntune
    \/ ProcessFreshdesk
    \/ ProcessActiveDirectory
    \/ ComputeMetrics

SpecRerun == InitRerun /\ [][NextRerun]_vars

UploadFiles(src) ==
    {<<>>} \cup {<<row>> : row \in {r \in RowsOf(src) :
                    HostnameOf(src, r) \in {normalizeHostname(HostPC2),
                                            normalizeHostname(HostWS100)}}}

\* handleFileUpload: a file is chosen for source fileType and Papa.parse starts
\* reading it; its complete callback runs later.
SelectFile(fileType, rows) ==
    /\ pc = "idle"
    /\ Cardinality(pending) < MaxPending
    /\ pending' = pending \cup {[fileType |-> fileType, rows |-> rows]}
    /\ UNCHANGED <<data, deviceMap, pc, idx, analytics, previous, norm, search, paging, files, lastUpdated, chosen>>

\* The complete callback of one of the running parses.
ParseComplete(p) ==
    /\ p \in pending
    /\ UploadComplete(p.fileType, p.rows)
    /\ pending' = pending \ {p}
    /\ UNCHANGED <<previous, norm, search, paging, files, lastUpdated, chosen>>

NextUpload ==
    \/ \E fileType \in Sources : \E rows \in UploadFiles(fileType) :
          SelectFile(fileType, rows)
    \/ \E p \in pending : ParseComplete(p)
    \/ ProcessCrowdstrike
    \/ ProcessAzure
    \/ ProcessIntune
    \/ ProcessFreshdesk
    \/ ProcessActiveDirectory
    \/ ComputeMetrics

SpecUpload == Init /\ [][NextUpload]_vars

\* ComputeMetrics applied to a whole Map.
ScoreAll(map, now) ==
    [i \in DOMAIN map |-> [map[i] EXCEPT !.riskScore = riskScore(map[i], now)]]

\* The analytics of a run over the stored rows d at time now.
RunPipeline(d, now) == AnalyticsOf(ScoreAll(MergeInOrder(Order, d, <<>>), now), now)

C15_UploadReplacesStep ==
    /\ (pending' # pending /\ pending' \subseteq pending) =>
          \E p \in pending \ pending' :
              /\ pending' = pending \ {p}
              /\ data' = [data EXCEPT ![p.fileType] = p.rows]
              /\ deviceMap' = <<>>
              /\ ~analytics'.ready
    /\ pc' = "metrics" => deviceMap' = MergeInOrder(Order, data', <<>>)
    /\ analytics'.ready => analytics' = RunPipeline(data', analytics'.now)

\* C15: when the parse of a file for source S completes, the stored rows of S
\* become exactly the rows of that file, the stored rows of every other source
\* stay as they were and the next run starts from an empty Map; the merged
\* devices and the analytics of every run are those of a run over the rows
\* stored now, whatever was uploaded before and in whatever order.
C15_UploadReplaces == [][C15_UploadReplacesStep]_vars

\* C15 witness: a finished run over the rows of two completed uploads, one of
\* them the one-row EDR export for ws-100, while the parse of another file is
\* still running.
C15_Witness ==
    /\ analytics.ready
    /\ pending # {}
    /\ Len(data["crowdstrike"]) = 1
    /\ HostnameOf("crowdstrike", data["crowdstrike"][1]) = normalizeHostname(HostWS100)
    /\ Len(data["freshdesk"]) = 1
    /\ analytics.devices = ScoreAll(MergeInOrder(Order, data, <<>>), analytics.now)

\* The row the running forEach callback is about to handle has an identity
\* cell that is missing, empty or blank: its normalized hostname is empty.
CurrentRowDropped ==
    /\ pc \in Sources
    /\ idx \in DOMAIN data[pc]
    /\ HostnameOf(pc, data[pc][idx]) = <<>>

\* The stored rows of source src whose normalized hostname is empty.
DroppedRows(src) == {k \in DOMAIN data[src] : HostnameOf(src, data[src][k]) = <<>>}

C16_DroppedRowStep ==
    /\ CurrentRowDropped => deviceMap' = deviceMap
    /\ \A i \in DOMAIN deviceMap' : deviceMap'[i].hostname # <<>>

\* C16: the callback of a row whose identity cell is missing, empty or
\* normalizes to the empty string leaves the Map as it is: no Device is
\* created and no tag, detail or field of an existing Device changes. No
\* Device of the Map ever has an empty hostname.
C16_DroppedRowChangesNothing == [][C16_DroppedRowStep]_vars

\* C16 witness: the five loops are done over three rows, two of them rows of
\* different sources without a usable identity, and the Map holds the one
\* Device of the third row.
C16_Witness ==
    /\ pc = "metrics"
    /\ TotalRows(data) = 3
    /\ Len(deviceMap) = 1
    /\ \E s, t \in Sources : s # t /\ DroppedRows(s) # {} /\ DroppedRows(t) # {}
    /\ \E s \in Sources : \E k \in DroppedRows(s) : k > 1

\* --------------------------------- normalizeHostname alone (SpecNormalize)

Alphabet == {"P", "p", " ", "-"}

\* The hostname cells handed to normalizeHostname: every text of at most
\* MaxLen characters, null and the number 0.
NormInputs == UNION {[1..n -> Alphabet] : n \in 0..MaxLen} \cup {NullHost, ZeroHost}

\* The texts that differ from s in letter case only.
RECURSIVE CaseVariants(_)
CaseVariants(s) ==
    IF s = <<>> THEN {<<>>}
    ELSE {<<c>> \o rest :
            c \in {a \in Alphabet \cup {Head(s)} : toLowerCase(a) = toLowerCase(Head(s))},
            rest \in CaseVariants(Tail(s))}

\* The runs of whitespace put before or after a text.
Paddings == {<<>>, <<" ">>, <<" ", "\t">>}

\* The maximal runs of whitespace of s that have text on both sides.
InteriorRuns(s) ==
    {r \in (1..Len(s)) \X (1..Len(s)) :
        /\ 1 < r[1] /\ r[1] <= r[2] /\ r[2] < Len(s)
        /\ \A k \in r[1]..r[2] : IsSpace(s[k])
        /\ ~IsSpace(s[r[1] - 1]) /\ ~IsSpace(s[r[2] + 1])}

\* s with one of these runs replaced by a single hyphen.
HyphenVariants(s) ==
    {SubSeq(s, 1, r[1] - 1) \o <<"-">> \o SubSeq(s, r[2] + 1, Len(s)) : r \in InteriorRuns(s)}

\* The hostnames that differ from s only in letter case, in leading or
\* trailing whitespace, or in a single hyphen where s has a run of whitespace
\* between two pieces of text.
Variants(s) ==
    IF s \in {NullHost, ZeroHost} THEN {s}
    ELSE UNION {{a \o c \o b : a \in Paddings, b \in Paddings, c \in CaseVariants(h)} :
                  h \in {s} \cup HyphenVariants(s)}

InitNormalize ==
    /\ data = NoData
    /\ deviceMap = <<>>
    /\ pc = "idle"
    /\ idx = 0
    /\ analytics = NoAnalytics
    /\ pending = {}
    /\ previous = NoAnalytics
    /\ search = NoSearch
    /\ paging = NoPaging
    /\ files = NoFiles
    /\ lastUpdated = NoFiles
    /\ chosen = <<>>
    /\ \E x \in NormInputs : \E y \in Variants(x) :
          norm = [NoNorm EXCEPT !.input = x, !.other = y]

\* normalizeHostname(input) and normalizeHostname(other)
NormalizeOnce ==
    /\ norm.step = 0
    /\ norm' = [norm EXCEPT !.step = 1,
                            !.once = normalizeHostname(norm.input),
                            !.otherOnce = normalizeHostname(norm.other)]
    /\ UNCHANGED <<data, deviceMap, pc, idx, analytics, pending, previous, search, paging, files, lastUpdated, chosen>>

\* normalizeHostname(normalizeHostname(input))
NormalizeTwice ==
    /\ norm.step = 1
    /\ norm' = [norm EXCEPT !.step = 2, !.twice = normalizeHostname(norm.once)]
    /\ UNCHANGED <<data, deviceMap, pc, idx, analytics, pending, previous, search, paging, files, lastUpdated, chosen>>

NextNormalize == NormalizeOnce \/ NormalizeTwice

SpecNormalize == InitNormalize /\ [][NextNormalize]_vars

Ws100 == normalizeHostname(HostWS100)

\* C18 (as stated): when ws-100 is reported by EDR rows only, each with
\* detections disabled "Yes", and is not stale beyond 90 days, its Device of a
\* finished run has sources = [crowdstrike] with the tag exactly once,
\* riskScore 25 and the status "Det. Off".
C18_EdrOnlyDetectionsOff ==
    (/\ analytics.ready
     /\ RowsFor("crowdstrike", Ws100) # {}
     /\ \A k \in RowsFor("crowdstrike", Ws100) :
           data["crowdstrike"][k].DetectionsDisabled = "Yes"
     /\ \A src \in Sources \ {"crowdstrike"} : RowsFor(src, Ws100) = {})
    => \E i \in DOMAIN analytics.devices :
          LET d == analytics.devices[i] IN
          /\ d.hostname = Ws100
          /\ ~StaleBeyond90(d, analytics.now) =>
                /\ d.sources = <<"crowdstrike">>
                /\ d.riskScore = 25
                /\ statusCell(d) = "Det. Off"

\* Hostname h is reported by AssetMgmt rows only, each with department Finance.
FinanceAssetOnly(h) ==
    /\ RowsFor("freshdesk", h) # {}
    /\ \A k \in RowsFor("freshdesk", h) : data["freshdesk"][k].Department = "Finance"
    /\ \A src \in Sources \ {"freshdesk"} : RowsFor(src, h) = {}

\* C19: a hostname reported only by AssetMgmt, with department Finance, gives
\* a Device with sources = [freshdesk], a null lastSeen and riskScore 30. The
\* Finance group of the department table counts it in total and not in
\* protected, and it is not among the unprotected devices (those with a
\* Directory or MDM tag and no EDR tag).
C19_AssetOnlyFinanceDevice ==
    analytics.ready =>
        LET ds == analytics.devices
            dd == analytics.departmentData
            Finance == {i \in DOMAIN ds : ds[i].department = "Finance"}
            Unprotected ==
                {i \in DOMAIN ds :
                    /\ Includes(ds[i].sources, "azure") \/ Includes(ds[i].sources, "intune")
                    /\ ~Includes(ds[i].sources, "crowdstrike")}
        IN  /\ analytics.unprotectedDevices = Cardinality(Unprotected)
            /\ \A g \in DOMAIN dd :
                  dd[g].name = "Finance" =>
                      /\ dd[g].total = Cardinality(Finance)
                      /\ dd[g].protected =
                            Cardinality({i \in Finance : Includes(ds[i].sources, "crowdstrike")})
            /\ \A i \in DOMAIN ds :
                  FinanceAssetOnly(ds[i].hostname) =>
                      /\ ds[i].sources = <<"freshdesk">>
                      /\ ds[i].lastSeen = NullDate
                      /\ ds[i].riskScore = 30
                      /\ i \in Finance
                      /\ i \notin Unprotected
                      /\ \E g \in DOMAIN dd : dd[g].name = "Finance"

\* C19 witness: a finished run with a Device reported only by an AssetMgmt
\* row of department Finance, the Finance group having total 1 and protected
\* 0, next to a Device that is counted unprotected.
C19_Witness ==
    /\ analytics.ready
    /\ analytics.totalDevices = 2
    /\ analytics.unprotectedDevices = 1
    /\ \E i \in DOMAIN analytics.devices :
          /\ FinanceAssetOnly(analytics.devices[i].hostname)
          /\ analytics.devices[i].riskScore = 30
    /\ \E g \in DOMAIN analytics.departmentData :
          /\ analytics.departmentData[g].name = "Finance"
          /\ analytics.departmentData[g].total = 1
          /\ analytics.departmentData[g].protected = 0

\* The manufacturer names of the devices of the finished run, with 'Unknown'
\* for a device without one, and the number of devices of each.
MfgNames == {MfgOf(analytics.devices[i]) : i \in DOMAIN analytics.devices}

MfgCountOf(name) ==
    Cardinality({i \in DOMAIN analytics.devices : MfgOf(analytics.devices[i]) = name})

\* The position of the first device of manufacturer name.
MfgFirstSeen(name) ==
    CHOOSE i \in DOMAIN analytics.devices :
        /\ MfgOf(analytics.devices[i]) = name
        /\ \A j \in 1..(i - 1) : MfgOf(analytics.devices[j]) # name

\* C20 (as stated): the manufacturer distribution of a finished run lists at
\* most 8 manufacturers, each once with its device count, in descending order
\* of count, manufacturers with equal counts in the order they were first
\* encountered, and no manufacturer left out has a strictly higher count than
\* one that is listed.
C20_TopManufacturersByCount ==
    analytics.ready =>
        LET t == analytics.mfgData
            Listed == {t[g].name : g \in DOMAIN t}
        IN  /\ Len(t) <= MfgShown
            /\ Listed \subseteq MfgNames
            /\ Len(t) = Cardinality(Listed)
            /\ MfgNames \ Listed # {} => Len(t) = MfgShown
            /\ \A g \in DOMAIN t : t[g].value = MfgCountOf(t[g].name)
            /\ \A g, k \in DOMAIN t :
                  g < k =>
                      \/ t[g].value > t[k].value
                      \/ /\ t[g].value = t[k].value
                         /\ MfgFirstSeen(t[g].name) < MfgFirstSeen(t[k].name)
            /\ \A left \in MfgNames \ Listed :
                  \A g \in DOMAIN t : MfgCountOf(left) <= t[g].value

\* C21 (as stated): every Device of a finished run is in at most one of the
\* Windows, macOS, iOS and Android classes (in none of them it is Unknown), so
\* the four class counts are counts of pairwise disjoint sets of devices and
\* their sum does not exceed totalDevices.
C21_OneOsClassPerDevice ==
    analytics.ready =>
        LET ds == analytics.devices
            ClassesOf(d) ==
                {c \in {"windows", "macos", "ios", "android"} :
                    \/ c = "windows" /\ InWindowsDevices(d)
                    \/ c = "macos" /\ InMacOSDevices(d)
                    \/ c = "ios" /\ InIOSDevices(d)
                    \/ c = "android" /\ InAndroidDevices(d)}
        IN  /\ \A i \in DOMAIN ds : Cardinality(ClassesOf(ds[i])) <= 1
            /\ analytics.windowsDevices + analytics.macOSDevices
               + analytics.iOSDevices + analytics.androidDevices
                  <= analytics.totalDevices

\* ------------------------------------------------------- search filter
\* filteredDevices reads three fields of a Device. hostname is always a
\* string (normalizeHostname returns one); user and department hold whatever
\* the parser put in the cell: null, a string, or, with dynamicTyping, a
\* non-zero number. A cell is a record of its kind and its text.

NullCell == [kind |-> "null", text |-> <<>>]

StringCell(text) == [kind |-> "string", text |-> text]

NumberCell == [kind |-> "number", text |-> <<"4">>]

SearchRows ==
    { [hostname |-> <<"p", "c">>, user |-> StringCell(<<"P", "p">>), department |-> NullCell],
      [hostname |-> <<"c", "p">>, user |-> NullCell, department |-> StringCell(<<"P", "C">>)],
      [hostname |-> <<"p">>, user |-> NumberCell, department |-> StringCell(<<"c">>)],
      [hostname |-> <<"c", "c">>, user |-> StringCell(<<>>), department |-> StringCell(<<"P">>)],
      [hostname |-> <<"c">>, user |-> StringCell(<<"c">>), department |-> NumberCell] }

QueryChars == {"p", "P", "c"}

Queries == UNION {[1..n -> QueryChars] : n \in 0..MaxLen}

\* Collections of Devices with distinct hostnames (they are values of a Map).
SearchCollections ==
    {s \in SeqsUpTo(SearchRows, MaxRows) : \A i, j \in DOMAIN s : i # j => s[i] # s[j]}

\* String.prototype.toLowerCase, character by character.
LowerText(s) == [i \in 1..Len(s) |-> toLowerCase(s[i])]

\* String.prototype.includes
IncludesText(hay, needle) ==
    \E i \in 0..(Len(hay) - Len(needle)) : SubSeq(hay, i + 1, i + Len(needle)) = needle

\* JavaScript truthiness of a cell: null and '' are falsy.
TruthyCell(c) == c.kind # "null" /\ c.text # <<>>

\* device.user && device.user.toLowerCase().includes(...): a falsy cell stops
\* the &&, a string is searched, and a number has no toLowerCase (TypeError).
CellTest(c, q) ==
    IF ~TruthyCell(c) THEN "no"
    ELSE IF c.kind # "string" THEN "throw"
    ELSE IF IncludesText(LowerText(c.text), LowerText(q)) THEN "yes" ELSE "no"

\* The callback given to filter: hostname || user || department, left to
\* right, each later operand evaluated only when the earlier ones are falsy.
FilterTest(d, q) ==
    IF IncludesText(LowerText(d.hostname), LowerText(q)) THEN "yes"
    ELSE IF CellTest(d.user, q) # "no" THEN CellTest(d.user, q)
    ELSE CellTest(d.department, q)

\* Array.prototype.filter: an exception in the callback ends the call.
FilterThrows(devices, q) == \E i \in DOMAIN devices : FilterTest(devices[i], q) = "throw"

filteredDevices(devices, q) == SelectSeq(devices, LAMBDA d : FilterTest(d, q) = "yes")

InitFilter ==
    /\ data = NoData
    /\ deviceMap = <<>>
    /\ pc = "idle"
    /\ idx = 0
    /\ analytics = NoAnalytics
    /\ pending = {}
    /\ previous = NoAnalytics
    /\ norm = NoNorm
    /\ paging = NoPaging
    /\ files = NoFiles
    /\ lastUpdated = NoFiles
    /\ chosen = <<>>
    /\ \E devices \in SearchCollections, q \in Queries :
          search = [NoSearch EXCEPT !.devices = devices, !.query = q]

ApplyFilter ==
    /\ search.step = 0
    /\ search' = [search EXCEPT
                    !.step = 1,
                    !.threw = FilterThrows(search.devices, search.query),
                    !.result = IF FilterThrows(search.devices, search.query) THEN <<>>
                               ELSE filteredDevices(search.devices, search.query)]
    /\ UNCHANGED <<data, deviceMap, pc, idx, analytics, pending, previous, norm,
                   paging, files, lastUpdated, chosen>>

NextFilter == ApplyFilter

SpecFilter == InitFilter /\ [][NextFilter]_vars

\* C22 (as stated): filter(devices, query) returns, in collection order and
\* without duplicates, exactly the Devices whose lower-cased hostname, user or
\* department contains the lower-cased query, a null user or department never
\* matching; for the empty query it returns the whole collection unchanged.
C22_FilterReturnsMatches ==
    search.step = 1 =>
        LET q == LowerText(search.query)
            Hit(c) == c.kind # "null" /\ IncludesText(LowerText(c.text), q)
            Wanted(d) == \/ IncludesText(LowerText(d.hostname), q)
                         \/ Hit(d.user)
                         \/ Hit(d.department)
        IN  /\ ~search.threw
            /\ search.result = SelectSeq(search.devices, Wanted)
            /\ \A i, j \in DOMAIN search.result : i # j => search.result[i] # search.result[j]
            /\ search.query = <<>> => search.result = search.devices

\* The coverage count of a source in the aggregate object.
CoverageOf(src) ==
    CASE src = "crowdstrike" -> analytics.hasCrowdstrike
      [] src = "azure" -> analytics.hasAzure
      [] src = "intune" -> analytics.hasIntune
      [] src = "freshdesk" -> analytics.hasFreshdesk
      [] src = "activedirectory" -> analytics.hasActiveDirectory

\* The counts of the aggregate object that read one source's detail only.
OwnCountsOf(src) ==
    CASE src = "crowdstrike" -> {analytics.detectionsDisabled}
      [] src = "azure" -> {analytics.disabledDevicesAzure}
      [] src = "intune" -> {analytics.unencryptedDevices}
      [] src = "freshdesk" -> {}
      [] src = "activedirectory" -> {analytics.disabledDevicesAD}

DetailOf(src, row) ==
    CASE src = "crowdstrike" -> CrowdstrikeDetail(row)
      [] src = "azure" -> AzureDetail(row)
      [] src = "intune" -> IntuneDetail(row)
      [] src = "freshdesk" -> FreshdeskDetail(row)
      [] src = "activedirectory" -> ActiveDirectoryDetail(row)

\* C24: at every point of the merge, for each of the five sources, a Device
\* for which that source has folded rows carries exactly the detail built from
\* the last such row in file order; a Device without such rows carries none.
C24_LastRowDetailWins ==
    \A src \in Sources : \A i \in DOMAIN deviceMap :
        LET h == deviceMap[i].hostname
        IN  IF RowsFor(src, h) = {} THEN ~deviceMap[i][src].present
            ELSE deviceMap[i][src] = DetailOf(src, LastRowFor(src, h))

\* The MDM file holds two rows for one hostname whose details differ, and the
\* merge is over.
C24_Witness ==
    /\ MergeDone
    /\ \E i \in DOMAIN deviceMap :
          LET rows == RowsFor("intune", deviceMap[i].hostname)
          IN  /\ Cardinality(rows) >= 2
              /\ \E k \in rows :
                    IntuneDetail(data["intune"][k]) # deviceMap[i].intune

\* The activity timestamps of a Device's current details, in the order EDR
\* lastSeen, Directory lastSignIn, MDM lastCheckIn, OnPremDirectory lastLogon;
\* an absent detail gives null.
ActivityChain(d) ==
    << IF d.crowdstrike.present THEN d.crowdstrike.lastSeen ELSE NullDate,
       IF d.azure.present THEN d.azure.lastSignIn ELSE NullDate,
       IF d.intune.present THEN d.intune.lastCheckIn ELSE NullDate,
       IF d.activedirectory.present THEN d.activedirectory.lastLogon ELSE NullDate >>

\* The first non-null entry of a chain of timestamps, null when there is none.
RECURSIVE FirstNonNull(_)
FirstNonNull(chain) ==
    IF chain = <<>> THEN NullDate
    ELSE IF Head(chain) # NullDate THEN Head(chain)
    ELSE FirstNonNull(Tail(chain))

\* C25 (as stated): after the merge, a Device's lastSeen is the first non-null
\* activity timestamp among its current details in the order EDR, Directory,
\* MDM, OnPremDirectory, and null exactly when all of them are null or absent.
C25_LastSeenFromCurrentDetails ==
    MergeDone =>
        \A i \in DOMAIN deviceMap :
            deviceMap[i].lastSeen = FirstNonNull(ActivityChain(deviceMap[i]))

\* ------------------------------------------------------------- pagination
\* The device table pages through filteredDevices. Only the length of that
\* list matters to the page number, so the list is modelled by its length:
\* an upload or a new query may leave any number of Devices in it.

\* Largest number of Devices in the filtered list.
MaxDevices == 101

devicesPerPage == 50

\* Math.ceil(filteredDevices.length / devicesPerPage)
totalPages(n) == (n + devicesPerPage - 1) \div devicesPerPage

\* Array.prototype.slice(start, end) on a list of n elements: a negative index
\* counts from the end, every index is clamped to 0..n; the length of the slice.
SliceIndex(n, k) == IF k < 0 THEN (IF n + k < 0 THEN 0 ELSE n + k) ELSE (IF k > n THEN n ELSE k)

SliceLength(n, start, end) ==
    IF SliceIndex(n, end) > SliceIndex(n, start)
    THEN SliceIndex(n, end) - SliceIndex(n, start) ELSE 0

\* currentDevices.length for a filtered list of n Devices on page p.
currentDevicesLength(n, p) ==
    SliceLength(n, (p - 1) * devicesPerPage, (p - 1) * devicesPerPage + devicesPerPage)

\* The complete callback of an upload and the render after it: analytics is
\* null (nothing shown) or an object, the filtered list is recomputed, and
\* currentPage is not written.
UploadRendered ==
    /\ \E shown \in BOOLEAN, n \in 0..MaxDevices :
          /\ ~shown => n = 0
          /\ paging' = [paging EXCEPT !.shown = shown, !.filtered = n]
    /\ UNCHANGED <<data, deviceMap, pc, idx, analytics, pending, previous, norm,
                   search, files, lastUpdated, chosen>>

\* onChange of the search box: setSearchQuery(e.target.value); setCurrentPage(1)
SearchChange ==
    /\ paging.shown
    /\ \E n \in 0..MaxDevices :
          paging' = [paging EXCEPT !.filtered = n, !.currentPage = 1]
    /\ UNCHANGED <<data, deviceMap, pc, idx, analytics, pending, previous, norm,
                   search, files, lastUpdated, chosen>>

\* The previous button: disabled when currentPage === 1.
PrevPage ==
    /\ paging.shown
    /\ paging.currentPage # 1
    /\ paging' = [paging EXCEPT
                    !.currentPage = IF @ - 1 > 1 THEN @ - 1 ELSE 1]
    /\ UNCHANGED <<data, deviceMap, pc, idx, analytics, pending, previous, norm,
                   search, files, lastUpdated, chosen>>

\* The next button: disabled when currentPage === totalPages.
NextPage ==
    /\ paging.shown
    /\ paging.currentPage # totalPages(paging.filtered)
    /\ paging' = [paging EXCEPT
                    !.currentPage = IF @ + 1 < totalPages(paging.filtered) THEN @ + 1
                                    ELSE totalPages(paging.filtered)]
    /\ UNCHANGED <<data, deviceMap, pc, idx, analytics, pending, previous, norm,
                   search, files, lastUpdated, chosen>>

NextPaging == UploadRendered \/ SearchChange \/ PrevPage \/ NextPage

SpecPaging == Init /\ [][NextPaging]_vars

\* C26 (as stated): starting from page 1, after any sequence of upload
\* completions, query changes and next/previous clicks, currentPage is at
\* least 1 and at most max(1, totalPages), so the page shown is never empty
\* while the filtered list is not.
C26_PageInRange ==
    /\ 1 <= paging.currentPage
    /\ paging.currentPage <= (IF totalPages(paging.filtered) > 1
                              THEN totalPages(paging.filtered) ELSE 1)
    /\ paging.filtered > 0 => currentDevicesLength(paging.filtered, paging.currentPage) > 0

\* C27: in the aggregate object a Device is counted as disabled exactly when
\* its Directory detail has accountEnabled equal to false, "false" or "False",
\* or its OnPremDirectory detail has enabled equal to one of the three; a
\* Device disabled in both is counted once, so the total lies between the
\* larger of the two per-system counts and their sum, and the recently active
\* disabled Devices are at most the total.
C27_DisabledCounts ==
    analytics.ready =>
        LET ds == analytics.devices
            Forms == {JsFalse, "false", "False"}
            InAzure == {i \in DOMAIN ds : ds[i].azure.present /\ ds[i].azure.accountEnabled \in Forms}
            InAD == {i \in DOMAIN ds : ds[i].activedirectory.present
                                        /\ ds[i].activedirectory.enabled \in Forms}
        IN  /\ analytics.disabledDevicesAzure = Cardinality(InAzure)
            /\ analytics.disabledDevicesAD = Cardinality(InAD)
            /\ analytics.allDisabledDevices = Cardinality(InAzure \cup InAD)
            /\ analytics.disabledDevicesAzure <= analytics.allDisabledDevices
            /\ analytics.disabledDevicesAD <= analytics.allDisabledDevices
            /\ analytics.allDisabledDevices
                  <= analytics.disabledDevicesAzure + analytics.disabledDevicesAD
            /\ analytics.disabledActiveWithin45 <= analytics.allDisabledDevices

\* One Device is disabled in both systems, in the Directory by the text
\* "False", and a second Device is disabled in one system only.
C27_Witness ==
    /\ analytics.ready
    /\ analytics.allDisabledDevices = 2
    /\ analytics.disabledDevicesAzure + analytics.disabledDevicesAD = 3
    /\ \E i \in DOMAIN analytics.devices :
          /\ analytics.devices[i].azure.present
          /\ analytics.devices[i].azure.accountEnabled = "False"
          /\ analytics.devices[i].activedirectory.present
          /\ analytics.devices[i].activedirectory.enabled = JsFalse

\* C28: in a finished run a Device has an EDR detail exactly when the EDR tag
\* is in its sources, so the +30 rule (no EDR tag) and the +25 rule (EDR
\* detections disabled) never both apply; no riskScore exceeds 75; and a
\* Device without EDR that is non-compliant, unencrypted and unseen for more
\* than 90 days scores exactly 75.
C28_RiskScoreAtMost75 ==
    analytics.ready =>
        \A i \in DOMAIN analytics.devices :
            LET d == analytics.devices[i]
                edrAbsent == \A k \in DOMAIN d.sources : d.sources[k] # "crowdstrike"
                detectionsOff == d.crowdstrike.present /\ d.crowdstrike.detectionsDisabled = "Yes"
                nonCompliant == \/ d.azure.present /\ d.azure.isCompliant = JsFalse
                                \/ d.intune.present /\ d.intune.compliance = "Noncompliant"
                unencrypted == d.intune.present /\ d.intune.encrypted = "No"
                stale == d.lastSeen # NullDate /\ analytics.now - d.lastSeen > 90
            IN  /\ d.crowdstrike.present <=> ~edrAbsent
                /\ ~(edrAbsent /\ detectionsOff)
                /\ d.riskScore <= 75
                /\ edrAbsent /\ nonCompliant /\ unencrypted /\ stale => d.riskScore = 75

\* A Device without EDR, non-compliant, unencrypted and last seen 91 days
\* before the run, next to a Device whose EDR detections are disabled.
C28_Witness ==
    /\ analytics.ready
    /\ \E i \in DOMAIN analytics.devices :
          LET d == analytics.devices[i]
          IN  /\ ~Includes(d.sources, "crowdstrike")
              /\ d.intune.present /\ d.intune.compliance = "Noncompliant"
              /\ d.intune.encrypted = "No"
              /\ d.lastSeen # NullDate /\ analytics.now - d.lastSeen > 90
              /\ d.riskScore = 75
    /\ \E i \in DOMAIN analytics.devices :
          /\ analytics.devices[i].crowdstrike.present
          /\ analytics.devices[i].crowdstrike.detectionsDisabled = "Yes"

RECURSIVE SumOfCompliant(_)
SumOfCompliant(groups) ==
    IF groups = <<>> THEN 0 ELSE Head(groups).compliant + SumOfCompliant(Tail(groups))

\* C29 (as stated): in a finished run the fleet-level Compliant figure
\* (totalDevices minus the non-compliant count) equals the sum of the
\* departments' compliant counts.
C29_ComplianceViewsAgree ==
    analytics.ready =>
        /\ analytics.complianceData.compliant
              = analytics.totalDevices - analytics.nonCompliantDevices
        /\ analytics.complianceData.compliant = SumOfCompliant(analytics.departmentData)

\* ------------------------------------------------- racing parses (SpecRace)
\* Every selected file gets the number of its selection, which stands for its
\* name; chosen records the files in the order of their selection. files holds
\* for each source the name written by the last complete callback, and
\* lastUpdated the callback whose new Date() it holds (0 is null).

\* Largest number of files selected in one session.
MaxSelected == 3

\* The sources for which files are selected in the race.
RaceSources == {"crowdstrike", "freshdesk"}

\* handleFileUpload: the file is handed to Papa.parse, which reads it
\* asynchronously.
SelectNamedFile(fileType, rows) ==
    /\ pc = "idle"
    /\ Len(chosen) < MaxSelected
    /\ chosen' = Append(chosen, [fileType |-> fileType, rows |-> rows])
    /\ pending' = pending \cup {[fileType |-> fileType, rows |-> rows, id |-> Len(chosen) + 1]}
    /\ UNCHANGED <<data, deviceMap, pc, idx, analytics, previous, norm, search, paging,
                   files, lastUpdated>>

\* The complete callback of a running parse, setData, setLastUpdated and
\* setFiles, and the render they cause: useMemo recomputes analytics from the
\* stored rows.
NamedParseComplete(p) ==
    /\ p \in pending
    /\ pending' = pending \ {p}
    /\ data' = [data EXCEPT ![p.fileType] = p.rows]
    /\ lastUpdated' = [lastUpdated EXCEPT ![p.fileType] = p.id]
    /\ files' = [files EXCEPT ![p.fileType] = p.id]
    /\ IF AllEmpty(data')
       THEN analytics' = NoAnalytics /\ deviceMap' = <<>>
       ELSE \E now \in NowValues :
               /\ deviceMap' = ScoreAll(MergeInOrder(Order, data', <<>>), now)
               /\ analytics' = RunPipeline(data', now)
    /\ UNCHANGED <<pc, idx, previous, norm, search, paging, chosen>>

NextRace ==
    \/ \E fileType \in RaceSources : \E rows \in UploadFiles(fileType) :
          SelectNamedFile(fileType, rows)
    \/ \E p \in pending : NamedParseComplete(p)

SpecRace == Init /\ [][NextRace]_vars

\* The numbers of the files selected so far for source src.
SelectedFor(src) == {k \in DOMAIN chosen : chosen[k].fileType = src}

\* C30 (as stated): the stored rows, file name and timestamp of a source
\* always belong to one upload, and once every file selected for a source has
\* been parsed, they are those of the file selected last for it.
C30_LaterSelectedFileWins ==
    \A src \in Sources :
        /\ files[src] = lastUpdated[src]
        /\ files[src] # 0 => data[src] = chosen[files[src]].rows
        /\ (SelectedFor(src) # {} /\ \A p \in pending : p.fileType # src) =>
              /\ files[src] = Max(SelectedFor(src))
              /\ lastUpdated[src] = Max(SelectedFor(src))
              /\ data[src] = chosen[Max(SelectedFor(src))].rows

====
